---------------------------- MODULE Spec2Model ----------------------------
(***************************************************************************)
(* Model of astronomy_tools.py: the menu loop (main / choose_option), the  *)
(* satellite operations (track, list viewable, RA/dec) and the star map    *)
(* (generate_star_map / draw_map / format_star_data).                      *)
(*                                                                         *)
(* Units.  Angles are integers in tenths of a degree (the precision of the *)
(* script's "{:.1f}" output): 900 is 90 degrees, 3600 a full turn.         *)
(* Distances are kilometres.  The wall clock `clock` counts minutes.       *)
(*                                                                         *)
(* External collaborators (geocoder, timezonefinder, pytz, skyfield,       *)
(* pandas, the file system) are modelled by small deterministic operators  *)
(* that keep their interface: what they take, what they return and when    *)
(* they raise.  A Python exception that nothing catches ends the program:  *)
(* the script has no try/except at all.                                    *)
(***************************************************************************)
EXTENDS Integers, Sequences, FiniteSets, TLC

VARIABLES
    pc,          \* where the program is: "menu", "lookup" (the loop of
                 \* get_satellite_by_name), "list" (the loop of
                 \* list_viewable_satellites), "save_prompt" (the loop of
                 \* generate_star_map), "save_loop" (the loop of draw_map),
                 \* "exited" (main returned), "crashed" (uncaught exception)
    op,          \* the menu option being served, or served last (0: none yet)
    error,       \* the uncaught exception that ended the program, or "none"
    clock,       \* the wall clock that ts.now() reads
    files,       \* the paths that exist in the working directory
    stations,    \* the satellites load.tle_file returned to this operation
    catalog,     \* the Hipparcos dataframe loaded by this operation, in file order
    constellations, \* what stellarium.parse_constellations returned to it
    choice,      \* get_satellite_by_name: the last name typed
    bluffton,    \* the ground station built by get_bluffton
    idx,         \* list_viewable_satellites: index of the next satellite
    listing,     \* list_viewable_satellites: the lines printed so far
    report,      \* what output_position / get_ra_and_declination printed
    call,        \* the latest satellite transform of this operation
    first_call,  \* the first satellite transform of the run
    chart,       \* the figure of draw_map
    i,           \* draw_map: the counter of the file-name search
    image_path   \* draw_map: the candidate path

vars == <<pc, op, error, clock, files, stations, catalog, constellations, choice,
          bluffton, idx, listing, report, call, first_call, chart, i, image_path>>

-----------------------------------------------------------------------------
(* Bounds of the model *)

\* The wall clock advances at most this many minutes in a run.
MaxTime == 2

\* Starmap1.png .. Starmap<MaxFiles>.png may exist at the start; a star map is
\* saved only while the directory holds at most MaxFiles + 1 files.
MaxFiles == 2

-----------------------------------------------------------------------------
(* Results of calls that may raise *)

Ok(v) == [err |-> "none", val |-> v]

Raise(e) == [err |-> e, val |-> <<>>]

\* A local variable: x is computed once and named v in F(v).
With(x, F(_)) == CHOOSE r \in {F(v) : v \in {x}} : TRUE

Abs(x) == IF x < 0 THEN -x ELSE x

Max(a, b) == IF a >= b THEN a ELSE b

\* An angle brought into [-1800, 1800).
Wrap180(a) == ((a + 1800) % 3600) - 1800


-----------------------------------------------------------------------------
(* Input: int(input(...)) and the geocoder *)

\* What the user may type at the menu.
MenuTexts == {"1", "2", "3", "4", "5", "9", "x"}

\* int(text): the number, or ValueError for text that is no integer literal.
int(text) ==
    CASE text = "1" -> Ok(1)
      [] text = "2" -> Ok(2)
      [] text = "3" -> Ok(3)
      [] text = "4" -> Ok(4)
      [] text = "5" -> Ok(5)
      [] text = "9" -> Ok(9)
      [] text = "12" -> Ok(12)
      [] text = "100" -> Ok(100)
      [] OTHER -> Raise("ValueError")

\* What the user may type as an address.
Addresses == {"Bluffton, OH", "Point Nemo", "asdfgh"}

\* geocoder.bing(address, key=...).json: a dict with 'lat' and 'lng', or None
\* (found = FALSE) when the service resolves nothing.
geocoder_bing(address) ==
    CASE address = "Bluffton, OH" -> [found |-> TRUE, lat |-> 409, lng |-> -852]
      [] address = "Point Nemo"   -> [found |-> TRUE, lat |-> -488, lng |-> -1234]
      [] OTHER                    -> [found |-> FALSE, lat |-> 0, lng |-> 0]

\* get_longitude_latitude: returns the pair (results['lat'], results['lng']);
\* subscripting None raises TypeError.
get_longitude_latitude(address) ==
    LET results == geocoder_bing(address)
    IN  IF ~results.found THEN Raise("TypeError")
        ELSE Ok(<<results.lat, results.lng>>)

\* wgs84.latlon(latitude_degrees, longitude_degrees, elevation_m)
latlon(latitude_degrees, longitude_degrees, elevation_m) ==
    [latitude |-> latitude_degrees, longitude |-> longitude_degrees,
     elevation |-> elevation_m]

\* Mutant of get_bluffton: the names are put right and the values thereby swapped.
get_bluffton_swapped(address) ==
    LET r == get_longitude_latitude(address)
    IN  IF r.err # "none" THEN r
        ELSE LET longitude == r.val[1]
                 latitude == r.val[2]
             IN  Ok(latlon(latitude, longitude, 0))

\* get_bluffton: the pair is unpacked into (longitude, latitude), in that order,
\* and passed on positionally in the same order.
get_bluffton(address) ==
    LET r == get_longitude_latitude(address)
    IN  IF r.err # "none" THEN r
        ELSE LET longitude == r.val[1]
                 latitude == r.val[2]
             IN  Ok(latlon(longitude, latitude, 0))

NoPosition == [latitude |-> 0, longitude |-> 0, elevation |-> -1]

-----------------------------------------------------------------------------
(* Satellites: the element sets and the transform *)

\* Element sets as load.tle_file returns them.  Each satellite moves east along
\* a parallel: its ground point at minute t is (lat, lon0 + rate * t).
ISS == [name |-> "ISS (ZARYA)", norad |-> 25544, lat |-> 409, lon0 |-> -1052, rate |-> 40]

CSS == [name |-> "CSS (TIANHE)", norad |-> 48274, lat |-> -400, lon0 |-> 600, rate |-> 40]

\* A second object listed under a name already used.
DEB == [name |-> "ISS (ZARYA)", norad |-> 49044, lat |-> 409, lon0 |-> -852, rate |-> 35]

\* What the stations file may hold.
StationLists == {<<>>, <<ISS, CSS>>, <<ISS, CSS, DEB>>}

\* get_satellites
get_satellites(tle_file) == tle_file

\* get_all_viewable_satellites: every satellite, unfiltered.
get_all_viewable_satellites(tle_file) == get_satellites(tle_file)

\* by_name = {sat.name: sat for sat in satellites}: a later satellite replaces
\* an earlier one of the same name.
by_name(satellites) ==
    [n \in {satellites[k].name : k \in DOMAIN satellites} |->
        LET ks == {k \in DOMAIN satellites : satellites[k].name = n}
        IN  satellites[CHOOSE k \in ks : \A j \in ks : j <= k]]

\* The names the user may type at the satellite prompt.
NameTexts == {"ISS (ZARYA)", "CSS (TIANHE)", "HUBBLE"}

\* (satellite - bluffton).at(t): the satellite's ground point at t, relative to
\* the ground station (dlat, dlon), and their separation.
at(satellite, position, t) ==
    LET dlat == satellite.lat - position.latitude
        dlon == Wrap180(satellite.lon0 + satellite.rate * t - position.longitude)
    IN  [dlat |-> dlat, dlon |-> dlon, sep |-> Max(Abs(dlat), Abs(dlon)),
         lat |-> satellite.lat, lon |-> Wrap180(satellite.lon0 + satellite.rate * t),
         t |-> t]

\* topo.altaz(): overhead at separation 0, on the horizon at 20 degrees.
altaz(topo) ==
    <<Max(-900, 900 - (9 * topo.sep) \div 2),
      IF topo.dlat >= 0 THEN (IF topo.dlon >= 0 THEN 450 ELSE 3150)
                        ELSE (IF topo.dlon >= 0 THEN 1350 ELSE 2250),
      400 + (19 * topo.sep) \div 2>>

\* Greenwich sidereal angle at minute t of the year.
sidereal(t) ==
    (1000 + (9856 * (t \div 1440)) \div 1000 + (2507 * (t % 1440)) \div 1000) % 3600

\* topo.radec()
radec(topo) ==
    <<(sidereal(topo.t) + topo.lon) % 3600, topo.lat, 400 + (19 * topo.sep) \div 2>>

\* Mutant of get_topographic_data: the instant is shifted by ambient state, the
\* menu option being served.
get_topographic_data_ambient(satellite, position, now) ==
    at(satellite, position, now + op)

\* get_topographic_data: t = ts.now() is read from the wall clock.
get_topographic_data(satellite, position, now) == at(satellite, position, now)

\* get_position_data: (alt, az, distance)
get_position_data(satellite, position, now) ==
    altaz(get_topographic_data(satellite, position, now))

\* Mutant of is_viewable: the horizon itself counts as viewable.
is_viewable_inclusive(position) == IF position[1] >= 0 THEN TRUE ELSE FALSE

\* is_viewable: position[0].degrees > 0
is_viewable(position) == IF position[1] > 0 THEN TRUE ELSE FALSE

\* output_position: what is printed.
output_position(position, name) ==
    [kind |-> "position", name |-> name,
     line |-> IF position[1] > 0 THEN "is above you" ELSE "is below you",
     a |-> position[1], b |-> position[2], c |-> position[3]]

NoReport == [kind |-> "none", name |-> "", line |-> "", a |-> 0, b |-> 0, c |-> 0]

\* A satellite transform as observed: its inputs, the clock reading it took
\* and its result; `first` tells the first transform of the run.
Call(kind, satellite, position, now, result) ==
    [kind |-> kind, norad |-> satellite.norad, latitude |-> position.latitude,
     longitude |-> position.longitude, t |-> now, result |-> result, first |-> FALSE]

NoCall == [kind |-> "none", norad |-> 0, latitude |-> 0, longitude |-> 0, t |-> 0,
           result |-> <<0, 0, 0>>, first |-> FALSE]

-----------------------------------------------------------------------------
(* Star map: date and time *)

\* What the user may type as date and time, already split at '-', ' ' and ':'.
DateTexts ==
    { [d |-> 1, m |-> 6, y |-> 2024, hh |-> 0, mm |-> 0],
      [d |-> 31, m |-> 2, y |-> 2024, hh |-> 12, mm |-> 0],
      [d |-> 10, m |-> 3, y |-> 2024, hh |-> 2, mm |-> 30] }

DaysInMonth(m, y) ==
    CASE m \in {4, 6, 9, 11} -> 30
      [] m = 2 -> IF y % 4 = 0 /\ (y % 100 # 0 \/ y % 400 = 0) THEN 29 ELSE 28
      [] OTHER -> 31

RECURSIVE DaysBefore(_, _)
DaysBefore(m, y) == IF m <= 1 THEN 0 ELSE DaysBefore(m - 1, y) + DaysInMonth(m - 1, y)

\* datetime.strptime(date + " " + time, '%d-%m-%Y %H:%M'): the naive time as
\* minutes since the start of the year, or ValueError.
strptime(text) ==
    IF /\ text.m \in 1..12
       /\ text.d \in 1..DaysInMonth(text.m, text.y)
       /\ text.hh \in 0..23
       /\ text.mm \in 0..59
    THEN Ok(((DaysBefore(text.m, text.y) + text.d - 1) * 24 + text.hh) * 60 + text.mm)
    ELSE Raise("ValueError")

\* TimezoneFinder().timezone_at(lng=..., lat=...): the zone's name, "None" where
\* no zone is found, ValueError for coordinates out of range.
timezone_at(lng, lat) ==
    IF lng < -1800 \/ lng > 1800 \/ lat < -900 \/ lat > 900 THEN Raise("ValueError")
    ELSE IF lat \in 250..490 /\ lng \in -900..-670 THEN Ok("America/New_York")
    ELSE Ok("None")

\* pytz.timezone(name).localize(naive, is_dst=None).astimezone(pytz.utc), for
\* the year 2024: minutes since the start of the year, UTC.
localize_utc(timezone_str, naive) ==
    IF timezone_str # "America/New_York" THEN Raise("UnknownTimeZoneError")
    ELSE IF naive \in 99480..99539 THEN Raise("NonExistentTimeError")
    ELSE IF naive \in 442140..442199 THEN Raise("AmbiguousTimeError")
    ELSE IF naive \in 99540..442139 THEN Ok(naive + 240)
    ELSE Ok(naive + 300)

\* get_utc_dt(latitude, longitude): the zone is looked up with lng=longitude,
\* lat=latitude.  `query` records the arguments of the lookup.
get_utc_dt(latitude, longitude, text) ==
    With(strptime(text), LAMBDA formatted_date :
    With(timezone_at(longitude, latitude), LAMBDA timezone_str :
        IF formatted_date.err # "none" THEN formatted_date
        ELSE IF timezone_str.err # "none" THEN timezone_str
        ELSE With(localize_utc(timezone_str.val, formatted_date.val), LAMBDA local_dt :
                IF local_dt.err # "none" THEN local_dt
                ELSE Ok([utc |-> local_dt.val,
                         query |-> [lng |-> longitude, lat |-> latitude]]))))

-----------------------------------------------------------------------------
(* Star map: directions and the projection *)

\* 1000 * sin(a), a in tenths of a degree (Bhaskara's rational approximation).
Sin1000(a) ==
    LET r == a % 3600
        x == IF r <= 1800 THEN r ELSE r - 1800
        p == x * (1800 - x)
        v == (4 * p) \div ((4050000 - p) \div 1000)
    IN  IF r <= 1800 THEN v ELSE -v

Cos1000(a) == Sin1000(a + 900)

\* wgs84.latlon(...).at(t): the ground station at instant t.
observer_at(position, t) == [position |-> position, t |-> t]

\* The local sidereal angle of the observer.
local_sidereal(observer) == (sidereal(observer.t) + observer.position.longitude) % 3600

\* observer.from_altaz(alt_degrees=90, az_degrees=0).radec(): the zenith, along
\* the normal of the ellipsoid; its declination is the geodetic latitude.
\* The script only ever asks for altitude 90.
from_altaz(observer, alt_degrees, az_degrees) ==
    [ra |-> local_sidereal(observer), dec |-> observer.position.latitude]

\* observer.radec(): the direction of the observer's position vector from the
\* centre of the Earth; its declination is the geocentric latitude, which is
\* less than the geodetic one by 0.1924 * sin(2 * latitude) degrees.
observer_radec(observer) ==
    LET lat == observer.position.latitude
    IN  [ra |-> local_sidereal(observer),
         dec |-> lat - (1924 * Sin1000(2 * lat) + 500000) \div 1000000]

\* earth.at(t).observe(Star(ra=ra, dec=dec)): the same direction, as a position.
observe(star) == [ra |-> star.ra, dec |-> star.dec]

\* build_stereographic_projection(center)(position) for one star: x and y in
\* thousandths, the sky seen from below (east to the left); not finite at the
\* point opposite the centre.
projection(center, star) ==
    LET dra == star.ra - center.ra
        cu == (Sin1000(center.dec) * Sin1000(star.dec)
               + ((Cos1000(center.dec) * Cos1000(star.dec)) \div 1000) * Cos1000(dra)) \div 1000
        e == (Cos1000(star.dec) * Sin1000(dra)) \div 1000
        n == (Cos1000(center.dec) * Sin1000(star.dec)
              - ((Sin1000(center.dec) * Cos1000(star.dec)) \div 1000) * Cos1000(dra)) \div 1000
        k == 1000 + cu
    IN  IF k <= 0 THEN [x |-> 0, y |-> 0, finite |-> FALSE]
        ELSE [x |-> (-(e * 1000)) \div k, y |-> (n * 1000) \div k, finite |-> TRUE]

\* The Hipparcos rows, indexed by hip; magnitude in tenths.
Vega == [hip |-> 91262, ra |-> 2792, dec |-> 388, magnitude |-> 0]

Dim == [hip |-> 55203, ra |-> 1695, dec |-> 315, magnitude |-> 112]

Polaris == [hip |-> 11767, ra |-> 379, dec |-> 893, magnitude |-> 20]

Sirius == [hip |-> 32349, ra |-> 1013, dec |-> -167, magnitude |-> -14]

\* What the catalogue file may hold.
Catalogs == {<<Vega, Dim, Polaris, Sirius>>, <<Sirius, Dim, Vega>>}

\* What the constellation file may hold: (name, edges) pairs.  The second one
\* names a star, 99999, that no catalogue has.
ConstellationFiles ==
    { << <<"Lyr", << <<91262, 55203>> >> >>,
         <<"CMa", << <<32349, 91262>>, <<55203, 32349>> >> >> >>,
      << <<"Lyr", << <<91262, 55203>>, <<91262, 99999>> >> >>,
         <<"CMa", << <<32349, 91262>> >> >> >> }

-----------------------------------------------------------------------------
(* Star map: format_star_data and draw_map *)

\* Mutant of project_stars: the projected values come back in reverse order.
project_stars_misaligned(center, stars) ==
    [k \in DOMAIN stars |->
        With(projection(center, observe(stars[Len(stars) + 1 - k])),
             LAMBDA xy : [hip |-> stars[k].hip, magnitude |-> stars[k].magnitude,
                          x |-> xy.x, y |-> xy.y, finite |-> xy.finite])]

\* stars['x'], stars['y'] = projection(star_positions): the k-th value goes to
\* the k-th row.
project_stars(center, stars) ==
    [k \in DOMAIN stars |->
        With(projection(center, observe(stars[k])),
             LAMBDA xy : [hip |-> stars[k].hip, magnitude |-> stars[k].magnitude,
                          x |-> xy.x, y |-> xy.y, finite |-> xy.finite])]

\* [edge for name, edges in constellations for edge in edges]
RECURSIVE all_edges(_)
all_edges(consts) ==
    IF consts = <<>> THEN <<>> ELSE Head(consts)[2] \o all_edges(Tail(consts))

\* format_star_data from `ts.from_datetime(utc_dt)` on: the projected rows and
\* the two lists of edge ends.  The result of from_altaz is dropped; the
\* centre is built from observer.radec().
star_field(stars, consts, lat, long, utc_dt) ==
    With(observer_at(latlon(lat, long, 0), utc_dt.utc), LAMBDA observer :
    With(from_altaz(observer, 900, 0), LAMBDA unused :
    With(observer_radec(observer), LAMBDA direction :
    With(observe([ra |-> direction.ra, dec |-> direction.dec]), LAMBDA center :
    With(all_edges(consts), LAMBDA edges :
        [stars |-> project_stars(center, stars),
         edges_star1 |-> [k \in DOMAIN edges |-> edges[k][1]],
         edges_star2 |-> [k \in DOMAIN edges |-> edges[k][2]],
         observer |-> observer, query |-> utc_dt.query, center |-> center])))))

\* format_star_data, after its prompts.
format_star_data(stars, consts, address, text) ==
    With(get_longitude_latitude(address), LAMBDA r :
        IF r.err # "none" THEN r
        ELSE With(get_utc_dt(r.val[1], r.val[2], text), LAMBDA utc_dt :
                IF utc_dt.err # "none" THEN utc_dt
                ELSE Ok(star_field(stars, consts, r.val[1], r.val[2], utc_dt.val))))

limiting_magnitude == 10

\* Mutant of loc: a label that is not in the index gets a row of its own at the
\* origin instead of KeyError.
loc_reindexing(stars, labels) ==
    Ok([j \in DOMAIN labels |->
           IF \E k \in DOMAIN stars : stars[k].hip = labels[j]
           THEN LET row == stars[CHOOSE k \in DOMAIN stars : stars[k].hip = labels[j]]
                IN  [hip |-> row.hip, x |-> row.x, y |-> row.y]
           ELSE [hip |-> labels[j], x |-> 0, y |-> 0]])

\* stars[['x', 'y']].loc[labels].values: the rows of the labelled stars, in the
\* order of the labels; KeyError when a label is not in the index.
loc(stars, labels) ==
    IF \E j \in DOMAIN labels : \A k \in DOMAIN stars : stars[k].hip # labels[j]
    THEN Raise("KeyError")
    ELSE Ok([j \in DOMAIN labels |->
                LET row == stars[CHOOSE k \in DOMAIN stars : stars[k].hip = labels[j]]
                IN  [hip |-> row.hip, x |-> row.x, y |-> row.y]])

\* ax.scatter(stars['x'][bright_stars], stars['y'][bright_stars], s=marker_size):
\* the rows the mask keeps, in row order.  The marker size is a function of
\* magnitude and max_star_size, which stand for it.
scatter(stars, max_star_size) ==
    LET bright_stars == [k \in DOMAIN stars |-> stars[k].magnitude <= limiting_magnitude * 10]
        kept == SelectSeq([k \in DOMAIN stars |-> [k |-> k, row |-> stars[k]]],
                          LAMBDA e : bright_stars[e.k])
    IN  [j \in DOMAIN kept |->
            [x |-> kept[j].row.x, y |-> kept[j].row.y, finite |-> kept[j].row.finite,
             magnitude |-> kept[j].row.magnitude, max_star_size |-> max_star_size]]

Sized(chart_size, max_star_size) ==
    [chart_size |-> chart_size, max_star_size |-> max_star_size,
     observer |-> observer_at(NoPosition, 0), query |-> [lng |-> 0, lat |-> 0],
     center |-> [ra |-> 0, dec |-> 0], scatter |-> <<>>, lines |-> <<>>,
     save_image |-> "", stage |-> "sized"]

NoChart == [Sized(0, 0) EXCEPT !.stage = "none"]

\* draw_map from ax.scatter to plt.axis('off'): the scatter and the line
\* collection lines_xy, or the KeyError of a label that is not in the index.
plot(fig, f) ==
    With([fig EXCEPT !.observer = f.observer, !.query = f.query, !.center = f.center,
                     !.scatter = scatter(f.stars, fig.max_star_size)], LAMBDA plotted :
    With(loc(f.stars, f.edges_star1), LAMBDA xy1 :
    With(loc(f.stars, f.edges_star2), LAMBDA xy2 :
        IF xy1.err # "none" THEN [err |-> xy1.err, val |-> [plotted EXCEPT !.stage = "failed"]]
        ELSE IF xy2.err # "none" THEN [err |-> xy2.err, val |-> [plotted EXCEPT !.stage = "failed"]]
        ELSE Ok([plotted EXCEPT
                    !.lines = [k \in DOMAIN xy1.val |-> <<xy1.val[k], xy2.val[k]>>],
                    !.stage = "drawn"]))))

\* draw_map up to `if save_image == 'Y'`: the figure, or the exception raised
\* on the way.
draw_map(fig0, stars, consts, save_image, address, text) ==
    With([fig0 EXCEPT !.save_image = save_image], LAMBDA fig :
    With(format_star_data(stars, consts, address, text), LAMBDA f :
        IF f.err # "none" THEN [err |-> f.err, val |-> [fig EXCEPT !.stage = "failed"]]
        ELSE plot(fig, f.val)))

-----------------------------------------------------------------------------
(* The program *)

\* The candidate paths that may exist before the program starts.
StartFiles ==
    SUBSET ({"StarMap.png"} \cup {"Starmap" \o ToString(k) \o ".png" : k \in 1..MaxFiles})

Init ==
    /\ pc = "menu"
    /\ op = 0
    /\ error = "none"
    /\ clock = 0
    /\ files \in StartFiles
    /\ stations = <<>>
    /\ catalog = <<>>
    /\ constellations = <<>>
    /\ choice = ""
    /\ bluffton = NoPosition
    /\ idx = 1
    /\ listing = <<>>
    /\ report = NoReport
    /\ call = NoCall
    /\ first_call = NoCall
    /\ chart = NoChart
    /\ i = 0
    /\ image_path = ""

\* An exception that nothing catches unwinds choose_option and main.
Crash(e) == pc' = "crashed" /\ error' = e

\* The first transform of the run is remembered.
Observed(c) ==
    /\ call' = [c EXCEPT !.first = (first_call.kind = "none")]
    /\ first_call' = IF first_call.kind = "none" THEN [c EXCEPT !.first = TRUE]
                     ELSE first_call

\* What is typed and fetched while one menu option is served.
NoInput == [address |-> "", size_text |-> "", star_text |-> "", tle_file |-> <<>>,
            hipparcos |-> <<>>, fab |-> <<>>]

InputsFor(text) ==
    CASE text \in {"1", "3"} ->
            {[NoInput EXCEPT !.tle_file = s] : s \in StationLists}
      [] text = "2" ->
            {[NoInput EXCEPT !.tle_file = s, !.address = a] :
                s \in StationLists, a \in Addresses}
      [] text = "4" ->
            {[NoInput EXCEPT !.size_text = a, !.star_text = b, !.hipparcos = c, !.fab = d] :
                a \in {"12", "x"}, b \in {"100", "x"}, c \in Catalogs,
                d \in ConstellationFiles}
      [] OTHER -> {NoInput}

\* choose_option: one pass of main's loop, up to the first loop of the option
\* chosen.  The locals of the operation served before are gone.
choose_option(text, in) ==
    /\ pc = "menu"
    /\ UNCHANGED <<clock, files, first_call>>
    /\ choice' = ""
    /\ idx' = 1
    /\ listing' = <<>>
    /\ report' = NoReport
    /\ call' = NoCall
    /\ i' = 0
    /\ image_path' = ""
    /\ LET n == int(text)
           quiet == /\ stations' = <<>>
                    /\ catalog' = <<>>
                    /\ constellations' = <<>>
                    /\ bluffton' = NoPosition
                    /\ chart' = NoChart
       IN  IF n.err # "none"
           THEN Crash(n.err) /\ op' = 0 /\ quiet
           ELSE
           CASE n.val \in {1, 3} ->
                   \* track_satellite / get_ra_and_declination: get_satellites()
                   /\ op' = n.val
                   /\ stations' = get_satellites(in.tle_file)
                   /\ catalog' = <<>>
                   /\ constellations' = <<>>
                   /\ bluffton' = NoPosition
                   /\ chart' = NoChart
                   /\ pc' = "lookup"
                   /\ error' = error
             [] n.val = 2 ->
                   \* list_viewable_satellites, up to its for loop
                   LET all_satellites == get_all_viewable_satellites(in.tle_file)
                       b == get_bluffton(in.address)
                   IN  /\ op' = 2
                       /\ stations' = all_satellites
                       /\ catalog' = <<>>
                       /\ constellations' = <<>>
                       /\ chart' = NoChart
                       /\ IF b.err # "none"
                          THEN Crash(b.err) /\ bluffton' = NoPosition
                          ELSE /\ bluffton' = b.val
                               /\ pc' = IF all_satellites = <<>> THEN "menu" ELSE "list"
                               /\ error' = error
             [] n.val = 4 ->
                   \* generate_star_map, up to its while loop
                   LET chart_size == int(in.size_text)
                       max_star_size == int(in.star_text)
                   IN  /\ op' = 4
                       /\ stations' = <<>>
                       /\ bluffton' = NoPosition
                       /\ IF chart_size.err # "none"
                          THEN Crash(chart_size.err) /\ chart' = NoChart
                               /\ catalog' = <<>> /\ constellations' = <<>>
                          ELSE IF max_star_size.err # "none"
                          THEN Crash(max_star_size.err) /\ chart' = NoChart
                               /\ catalog' = <<>> /\ constellations' = <<>>
                          ELSE /\ chart' = Sized(chart_size.val, max_star_size.val)
                               /\ catalog' = in.hipparcos
                               /\ constellations' = in.fab
                               /\ pc' = "save_prompt"
                               /\ error' = error
             [] n.val = 5 ->
                   /\ op' = 5 /\ quiet /\ pc' = "exited" /\ error' = error
             [] OTHER ->
                   \* "Please enter a valid option"
                   /\ op' = 0 /\ quiet /\ pc' = "menu" /\ error' = error

\* track_satellite, after the satellite is chosen.
track_satellite(satellite, address) ==
    LET b == get_bluffton(address)
    IN  IF b.err # "none"
        THEN Crash(b.err) /\ UNCHANGED <<bluffton, report, call, first_call>>
        ELSE LET position == get_position_data(satellite, b.val, clock)
             IN  /\ bluffton' = b.val
                 /\ report' = output_position(position, satellite.name)
                 /\ Observed(Call("altaz", satellite, b.val, clock, position))
                 /\ pc' = "menu"
                 /\ error' = error

\* get_ra_and_declination, after the satellite is chosen.
get_ra_and_declination(satellite, address) ==
    LET b == get_bluffton(address)
    IN  IF b.err # "none"
        THEN Crash(b.err) /\ UNCHANGED <<bluffton, report, call, first_call>>
        ELSE LET topo == get_topographic_data(satellite, b.val, clock)
                 equatorial == radec(topo)
             IN  /\ bluffton' = b.val
                 /\ report' = [kind |-> "radec", name |-> satellite.name, line |-> "",
                               a |-> equatorial[1], b |-> equatorial[2], c |-> 0]
                 /\ Observed(Call("radec", satellite, b.val, clock, equatorial))
                 /\ pc' = "menu"
                 /\ error' = error

\* Mutant of get_satellite_by_name: a name that is not listed raises KeyError.
get_satellite_by_name_raising(name, address) ==
    /\ pc = "lookup"
    /\ choice' = name
    /\ UNCHANGED <<op, clock, files, stations, catalog, constellations, idx, listing,
                   chart, i, image_path>>
    /\ IF name \in DOMAIN by_name(stations)
       THEN LET satellite == by_name(stations)[name]
            IN  IF op = 1 THEN track_satellite(satellite, address)
                          ELSE get_ra_and_declination(satellite, address)
       ELSE Crash("KeyError") /\ UNCHANGED <<bluffton, report, call, first_call>>

\* get_satellite_by_name: one pass of `while not_chosen`, and on a listed name
\* the rest of the operation that asked for the satellite.
get_satellite_by_name(name, address) ==
    /\ pc = "lookup"
    /\ choice' = name
    /\ UNCHANGED <<op, clock, files, stations, catalog, constellations, idx, listing,
                   chart, i, image_path>>
    /\ IF name \in DOMAIN by_name(stations)
       THEN LET satellite == by_name(stations)[name]
            IN  IF op = 1 THEN track_satellite(satellite, address)
                          ELSE get_ra_and_declination(satellite, address)
       ELSE \* "Please enter a valid satellite name"
            UNCHANGED <<pc, error, bluffton, report, call, first_call>>

\* The line list_viewable_satellites prints for one satellite.
viewable_line(sat, position, now) ==
    [name |-> sat.name, norad |-> sat.norad, t |-> now,
     text |-> IF is_viewable(position) THEN "is viewable" ELSE "is not viewable",
     altitude |-> position[1]]

\* Mutant of list_viewable_satellites: the list is walked from its end.
list_viewable_satellites_reversed ==
    /\ pc = "list"
    /\ LET sat == stations[Len(stations) + 1 - idx]
           position == get_position_data(sat, bluffton, clock)
       IN  /\ listing' = Append(listing, viewable_line(sat, position, clock))
           /\ Observed(Call("altaz", sat, bluffton, clock, position))
    /\ idx' = idx + 1
    /\ pc' = IF idx < Len(stations) THEN "list" ELSE "menu"
    /\ UNCHANGED <<op, error, clock, files, stations, catalog, constellations, choice,
                   bluffton, report, chart, i, image_path>>

\* list_viewable_satellites: one pass of `for sat in all_satellites`.
list_viewable_satellites ==
    /\ pc = "list"
    /\ LET sat == stations[idx]
           position == get_position_data(sat, bluffton, clock)
       IN  /\ listing' = Append(listing, viewable_line(sat, position, clock))
           /\ Observed(Call("altaz", sat, bluffton, clock, position))
    /\ idx' = idx + 1
    /\ pc' = IF idx < Len(stations) THEN "list" ELSE "menu"
    /\ UNCHANGED <<op, error, clock, files, stations, catalog, constellations, choice,
                   bluffton, report, chart, i, image_path>>

\* generate_star_map: one pass of `while save_to_file != 'Y' and != 'N'`, and
\* on Y or N draw_map up to its file-name search.
generate_star_map(save_to_file, address, text) ==
    /\ pc = "save_prompt"
    /\ save_to_file = "Y" => Cardinality(files) <= MaxFiles + 1
    /\ UNCHANGED <<op, clock, files, stations, catalog, constellations, choice,
                   bluffton, idx, listing, report, call, first_call>>
    /\ IF save_to_file \notin {"Y", "N"}
       THEN UNCHANGED <<pc, error, chart, i, image_path>>
       ELSE \E d \in {draw_map(chart, catalog, constellations, save_to_file, address, text)} :
                IF d.err # "none"
                THEN Crash(d.err) /\ chart' = d.val /\ UNCHANGED <<i, image_path>>
                ELSE IF d.val.save_image = "Y"
                THEN /\ chart' = d.val
                     /\ image_path' = "StarMap.png"
                     /\ i' = 0
                     /\ pc' = "save_loop"
                     /\ error' = error
                ELSE /\ chart' = [d.val EXCEPT !.stage = "shown"]
                     /\ pc' = "menu"
                     /\ UNCHANGED <<error, i, image_path>>

\* Mutant of save_star_map: the first candidate is written without looking.
save_star_map_overwriting ==
    /\ pc = "save_loop"
    /\ files' = files \cup {image_path}
    /\ chart' = [chart EXCEPT !.stage = "saved"]
    /\ pc' = "menu"
    /\ UNCHANGED <<i, image_path>>
    /\ UNCHANGED <<op, error, clock, stations, catalog, constellations, choice,
                   bluffton, idx, listing, report, call, first_call>>

\* draw_map: one pass of `while os.path.exists(image_path)`, and when the path
\* is free plt.savefig(image_path), plt.show(), plt.close().
save_star_map ==
    /\ pc = "save_loop"
    /\ IF image_path \in files
       THEN /\ i' = i + 1
            /\ image_path' = "Starmap" \o ToString(i + 1) \o ".png"
            /\ UNCHANGED <<pc, files, chart>>
       ELSE /\ files' = files \cup {image_path}
            /\ chart' = [chart EXCEPT !.stage = "saved"]
            /\ pc' = "menu"
            /\ UNCHANGED <<i, image_path>>
    /\ UNCHANGED <<op, error, clock, stations, catalog, constellations, choice,
                   bluffton, idx, listing, report, call, first_call>>

\* Time passes while the program runs.
tick ==
    /\ pc \notin {"exited", "crashed"}
    /\ clock < MaxTime
    /\ clock' = clock + 1
    /\ UNCHANGED <<pc, op, error, files, stations, catalog, constellations, choice,
                   bluffton, idx, listing, report, call, first_call, chart, i, image_path>>

\* What the user may answer to "Do you wish to save this image? Y/N: ".
SaveTexts == {"Y", "N", "y"}

Next ==
    \/ \E text \in MenuTexts : \E in \in InputsFor(text) : choose_option(text, in)
    \/ \E name \in NameTexts, address \in Addresses : get_satellite_by_name(name, address)
    \/ list_viewable_satellites
    \/ \E save_to_file \in SaveTexts, address \in Addresses, text \in DateTexts :
          generate_star_map(save_to_file, address, text)
    \/ save_star_map
    \/ tick

Spec == Init /\ [][Next]_vars

-----------------------------------------------------------------------------
(* Properties *)

\* C1: is_viewable is true exactly when the altitude is strictly above 0, so
\* an altitude of exactly 0 is not viewable; output_position draws the line
\* between "above you" and "below you" at the same place.
C1_StrictHorizon ==
    /\ \A k \in DOMAIN listing :
          (listing[k].text = "is viewable") <=> (listing[k].altitude > 0)
    /\ call.kind = "altaz" => (is_viewable(call.result) <=> call.result[1] > 0)
    /\ report.kind = "position" =>
          ((report.line = "is above you") <=> (report.a > 0))

\* A listing with a satellite exactly on the horizon, one above and one below.
C1_Witness ==
    /\ \E k \in DOMAIN listing :
          listing[k].altitude = 0 /\ listing[k].text = "is not viewable"
    /\ \E k \in DOMAIN listing :
          listing[k].altitude > 0 /\ listing[k].text = "is viewable"
    /\ \E k \in DOMAIN listing :
          listing[k].altitude < 0 /\ listing[k].text = "is not viewable"

C3_CenterIsZenith ==
    chart.stage \in {"drawn", "shown", "saved"} =>
        chart.center = from_altaz(chart.observer, 900, 0)

C5_ErrorLeavesMenuServing ==
    (error # "none" /\ op # 0) => pc = "menu"

\* C6 as stated: once a name that is not among the satellites is typed, the
\* lookup is over.
C6_UnknownNameEndsLookup ==
    (op \in {1, 3} /\ choice # "" /\ choice \notin {stations[k].name : k \in DOMAIN stations})
    => pc # "lookup"

\* C6 as amended: the lookup goes on prompting for as long as the name typed is
\* not among the satellites, without raising; it ends only on a listed name, and
\* the satellite it returns is the last one of the list with that name.
C6_LookupEndsOnlyOnListedName ==
    op \in {1, 3} =>
        LET ks == {k \in DOMAIN stations : stations[k].name = choice}
        IN  IF ks = {}
            THEN pc = "lookup" /\ error = "none"
            ELSE /\ pc # "lookup"
                 /\ pc = "menu" =>
                       /\ report.name = choice
                       /\ call.norad = stations[CHOOSE k \in ks : \A j \in ks : j <= k].norad

\* An unlisted name was typed although satellites are listed, and the lookup
\* is still prompting.
C6_Witness ==
    /\ pc = "lookup"
    /\ choice = "HUBBLE"
    /\ stations # <<>>

\* C7: an edge that names a star the catalogue does not have ends the render in
\* an error (KeyError) with no line segment produced; it is neither dropped nor
\* resolved to some point.  When every star is known, the k-th segment joins
\* the projected points of the two stars of the k-th edge.
C7_EdgesResolveOrFail ==
    LET edges == all_edges(constellations)
        known == {catalog[k].hip : k \in DOMAIN catalog}
        unresolved == \E k \in DOMAIN edges : edges[k][1] \notin known \/ edges[k][2] \notin known
        point(hip) ==
            LET star == catalog[CHOOSE k \in DOMAIN catalog : catalog[k].hip = hip]
                xy == projection(chart.center, observe(star))
            IN  [hip |-> hip, x |-> xy.x, y |-> xy.y]
    IN  /\ chart.stage \in {"drawn", "shown", "saved"} =>
              /\ ~unresolved
              /\ Len(chart.lines) = Len(edges)
              /\ \A k \in DOMAIN edges :
                    chart.lines[k] = <<point(edges[k][1]), point(edges[k][2])>>
        /\ error = "KeyError" =>
              /\ unresolved
              /\ pc = "crashed"
              /\ chart.stage = "failed"
              /\ chart.lines = <<>>
        /\ (unresolved /\ chart.scatter # <<>>) => error = "KeyError"

\* A render that got as far as the scatter and then failed on an unknown star.
C7_Witness ==
    /\ error = "KeyError"
    /\ chart.scatter # <<>>
    /\ chart.lines = <<>>
    /\ \E c \in DOMAIN constellations : \E e \in DOMAIN constellations[c][2] :
          constellations[c][2][e][2] = 99999

\* C8: the points drawn are those of the stars the magnitude filter keeps, in
\* catalogue order: filtering the projected rows gives what projecting the
\* filtered catalogue gives.
C8_FilterAndProjectCommute ==
    (chart.stage \in {"drawn", "shown", "saved"} \/ error = "KeyError") =>
        LET bright == SelectSeq(catalog, LAMBDA row : row.magnitude <= limiting_magnitude * 10)
        IN  /\ Len(chart.scatter) = Len(bright)
            /\ \A k \in DOMAIN bright :
                  LET xy == projection(chart.center, observe(bright[k]))
                  IN  /\ chart.scatter[k].x = xy.x
                      /\ chart.scatter[k].y = xy.y
                      /\ chart.scatter[k].finite = xy.finite
                      /\ chart.scatter[k].magnitude = bright[k].magnitude

\* A map shown of a catalogue whose second star is too faint to be drawn.
C8_Witness ==
    /\ chart.stage = "shown"
    /\ Len(catalog) = 4
    /\ Len(chart.scatter) = 3
    /\ catalog[2].magnitude > limiting_magnitude * 10

\* The k-th candidate of the file-name search.
Candidate(k) == IF k = 0 THEN "StarMap.png" ELSE "Starmap" \o ToString(k) \o ".png"

\* C9: the file-name search ends (its counter never exceeds the number of files
\* present) and the path written did not exist: it is StarMap.png when that is
\* free, else Starmap<i>.png for the least i >= 1 that is free.  Nothing but
\* that write changes the directory, and only when save_image is 'Y'.
C9_SavedPathIsFirstFree ==
    [][ /\ pc = "save_loop" =>
              /\ chart.save_image = "Y"
              /\ image_path = Candidate(i)
              /\ \A k \in 0..(i - 1) : Candidate(k) \in files
              /\ i <= Cardinality(files)
              /\ i' # i => (image_path \in files /\ i' = i + 1 /\ pc' = "save_loop")
              /\ pc' # "save_loop" =>
                    (image_path \notin files /\ files' = files \cup {image_path})
        /\ files' # files =>
              /\ pc = "save_loop"
              /\ chart.save_image = "Y"
              /\ image_path \notin files
              /\ files' = files \cup {image_path}
      ]_vars

\* A map saved as Starmap2.png after StarMap.png and Starmap1.png were found.
C9_Witness ==
    /\ chart.stage = "saved"
    /\ i = 2
    /\ image_path = "Starmap2.png"
    /\ {"StarMap.png", "Starmap1.png", "Starmap2.png"} \subseteq files

\* What the geocoder can answer.
Geocoded == {g \in {geocoder_bing(a) : a \in Addresses} : g.found}

\* C10: the geocoded latitude is used as latitude and the geocoded longitude as
\* longitude: in the ground station of get_bluffton (elevation 0), in the
\* observer of format_star_data and in the time-zone lookup of get_utc_dt.
C10_LatitudeAndLongitudeKeepTheirRoles ==
    /\ bluffton # NoPosition =>
          \E g \in Geocoded :
              bluffton = [latitude |-> g.lat, longitude |-> g.lng, elevation |-> 0]
    /\ chart.stage \in {"drawn", "shown", "saved"} =>
          \E g \in Geocoded :
              /\ chart.observer.position =
                    [latitude |-> g.lat, longitude |-> g.lng, elevation |-> 0]
              /\ chart.query = [lng |-> g.lng, lat |-> g.lat]

\* A satellite tracked from Point Nemo.
C10_Witness ==
    /\ op = 1
    /\ pc = "menu"
    /\ report.kind = "position"
    /\ bluffton = [latitude |-> -488, longitude |-> -1234, elevation |-> 0]

=============================================================================
